---- MODULE Spec2Model ----
(***************************************************************************)
(* Model of Teach Hub (src/app.py): the tables of its SQLite database      *)
(* (challenges, challenge_logs, daily_reflections, posts, replies), the    *)
(* helpers that write and read them, the aggregates (streak, range count,  *)
(* daily total), the nickname of the session and the runs of the script    *)
(* that render the challenges page and the community page.                 *)
(*                                                                         *)
(* Text values (dates, timestamps, nicknames, reflection fields, titles)   *)
(* are sequences of character codes, so that formatting, trimming,         *)
(* cleaning and SQLite's byte-wise TEXT comparison are computed rather     *)
(* than assumed.                                                           *)
(***************************************************************************)
EXTENDS Integers, Sequences, FiniteSets, TLC

VARIABLES
    challenge_logs,     \* rows of table challenge_logs
    daily_reflections,  \* rows of table daily_reflections
    clock,              \* the wall clock: [day |-> <<y, m, d>>, minute |-> 0..1439]
    ticks,              \* how often the clock has advanced
    ops,                \* how many calls or runs of the script have been made
    written,            \* history: (author, log_date, code) -> completed of the latest call
    saved,              \* history: (author, log_date) -> arguments of the latest save
    last,               \* history: the latest call or run and how often it was repeated
    challenges,         \* rows of table challenges (the catalog)
    posts,              \* rows of table posts
    replies,            \* rows of table replies
    nickname,           \* st.session_state.nickname, a text
    page,               \* st.session_state.page
    widgets,            \* the widget values Streamlit keeps between two script runs
    conn,               \* per caller: the position in set_challenge_completion and its arguments
    db_lock,            \* the caller holding SQLite's write lock, or "none"
    committed           \* history: the calls in the order of their commits

\* the tables and the clock of the data layer
datavars == <<challenge_logs, daily_reflections, clock, ticks, ops, written, saved, last>>

\* the catalog, the community tables, the session and the connections
appvars == <<challenges, posts, replies, nickname, page, widgets, conn, db_lock, committed>>

vars == <<challenge_logs, daily_reflections, clock, ticks, ops, written, saved, last,
          challenges, posts, replies, nickname, page, widgets, conn, db_lock, committed>>

----------------------------------------------------------------------------
\* Bounds of the model

MaxOps == 2
MaxSaves == 2
MaxTail == 3
MaxRuns == 4

\* The values the callers pass in
Users == {"MsH", "NQT2026"}
Codes == {"CHALLENGE_MINDSET", "BREATH_RESET"}
LogDates == {<<2023, 12, 31>>, <<2024, 1, 1>>, <<2024, 1, 2>>}
ReflDates == {<<2023, 12, 31>>, <<2024, 1, 1>>}
CompletedValues == {0, 1}
WinTexts == {<<>>, <<32, 97, 32>>}
ShiftTexts == {<<>>, <<98>>}
NoteTexts == {<<>>, <<10, 99>>}
StartClock == [day |-> <<2024, 1, 1>>, minute |-> 12 * 60]
EndClock == [day |-> <<2024, 1, 2>>, minute |-> 12 * 60]
StepMinutes == 12 * 60

\* The texts typed into the nickname field: none, eighteen or nineteen times
\* "a", then up to MaxTail characters out of space, tab, "a" and "!"
NickAlphabet == {32, 9, 97, 33}
NickPads == {0, 18, 19}

RECURSIVE TextsUpTo(_)
TextsUpTo(n) ==
    IF n = 0 THEN {<<>>}
    ELSE LET shorter == TextsUpTo(n - 1)
         IN  shorter \cup {Append(t, c) : t \in {x \in shorter : Len(x) = n - 1},
                                          c \in NickAlphabet}

Pad(k) == [i \in 1..k |-> 97]

NickTexts == {Pad(k) \o t : k \in NickPads, t \in TextsUpTo(MaxTail)}

\* What a user of the pages enters: nicknames "MsH", "B" and "! !", the pages
\* with and without writes, log dates, a category, titles and bodies
AppNickTexts == {<<77, 115, 72>>, <<66>>, <<33, 32, 33>>}
AppPages == {"Home", "Challenges", "Community"}
AppDates == {<<2023, 12, 31>>, <<2024, 1, 1>>}
PostCategories == {"Workload hacks"}
PostTitles == {<<>>, <<32, 84, 32>>}
PostBodies == {<<98>>}
ReplyBodies == {<<32>>, <<114, 32>>}

\* The texts a caller may pass to set_challenge_completion as author and as
\* log_date: "2024-01-01", "2024-02-30" and "soon"
RawAuthors == {"", "MsH"}
RawDates == {<<50, 48, 50, 52, 45, 48, 49, 45, 48, 49>>,
             <<50, 48, 50, 52, 45, 48, 50, 45, 51, 48>>,
             <<115, 111, 111, 110>>}

----------------------------------------------------------------------------
\* datetime.date: the proleptic Gregorian calendar

IsLeap(y) == (y % 4 = 0 /\ y % 100 # 0) \/ y % 400 = 0

DaysInMonth(y, m) ==
    IF m = 2 THEN (IF IsLeap(y) THEN 29 ELSE 28)
    ELSE IF m \in {4, 6, 9, 11} THEN 30 ELSE 31

\* d - timedelta(days=1)
PrevDay(d) ==
    IF d[3] > 1 THEN <<d[1], d[2], d[3] - 1>>
    ELSE IF d[2] > 1 THEN <<d[1], d[2] - 1, DaysInMonth(d[1], d[2] - 1)>>
    ELSE <<d[1] - 1, 12, 31>>

\* d + timedelta(days=1)
NextDay(d) ==
    IF d[3] < DaysInMonth(d[1], d[2]) THEN <<d[1], d[2], d[3] + 1>>
    ELSE IF d[2] < 12 THEN <<d[1], d[2] + 1, 1>>
    ELSE <<d[1] + 1, 1, 1>>

RECURSIVE MinusDays(_, _)
\* d - timedelta(days=n)
MinusDays(d, n) == IF n = 0 THEN d ELSE MinusDays(PrevDay(d), n - 1)

\* a <= b on date values
DateLE(a, b) ==
    \/ a[1] < b[1]
    \/ a[1] = b[1] /\ a[2] < b[2]
    \/ a[1] = b[1] /\ a[2] = b[2] /\ a[3] <= b[3]

\* the character of the decimal digit of n at place p (1, 10, 100, 1000)
Digit(n, p) == 48 + ((n \div p) % 10)

\* d.strftime("%Y-%m-%d"): zero-padded year, month and day
StrFDate(d) ==
    <<Digit(d[1], 1000), Digit(d[1], 100), Digit(d[1], 10), Digit(d[1], 1), 45,
      Digit(d[2], 10), Digit(d[2], 1), 45, Digit(d[3], 10), Digit(d[3], 1)>>

\* date.today()
date_today == clock.day

\* today_str()
today_str == StrFDate(date_today)

\* now_str(): datetime.now().strftime("%Y-%m-%d %H:%M")
now_str ==
    StrFDate(clock.day) \o
        <<32, Digit(clock.minute \div 60, 10), Digit(clock.minute \div 60, 1),
          58, Digit(clock.minute % 60, 10), Digit(clock.minute % 60, 1)>>

----------------------------------------------------------------------------
\* Text helpers

RECURSIVE StrLEFrom(_, _, _)
\* a <= b decided from position i on, the positions before it being equal
StrLEFrom(a, b, i) ==
    IF i > Len(a) THEN TRUE
    ELSE IF i > Len(b) THEN FALSE
    ELSE IF a[i] < b[i] THEN TRUE
    ELSE IF a[i] > b[i] THEN FALSE
    ELSE StrLEFrom(a, b, i + 1)

\* a <= b for SQLite TEXT values (BINARY collation: the first differing
\* byte decides, a prefix sorts before the longer text)
StrLE(a, b) == StrLEFrom(a, b, 1)

\* the characters str.strip() removes
IsSpace(c) == c \in {9, 10, 11, 12, 13, 28, 29, 30, 31, 32}

RECURSIVE LStrip(_)
LStrip(s) == IF s # <<>> /\ IsSpace(Head(s)) THEN LStrip(Tail(s)) ELSE s

RECURSIVE RStrip(_)
RStrip(s) ==
    IF s # <<>> /\ IsSpace(s[Len(s)]) THEN RStrip(SubSeq(s, 1, Len(s) - 1)) ELSE s

\* s.strip()
Strip(s) == RStrip(LStrip(s))

\* re.sub(r"\s+", " ", n): every run of whitespace becomes one space
RECURSIVE collapse_whitespace(_)
collapse_whitespace(s) ==
    IF s = <<>> THEN <<>>
    ELSE IF IsSpace(Head(s)) THEN <<32>> \o collapse_whitespace(LStrip(s))
    ELSE <<Head(s)>> \o collapse_whitespace(Tail(s))

\* the characters of [a-zA-Z0-9 _-]
IsAllowed(c) == c \in (97..122) \cup (65..90) \cup (48..57) \cup {32, 95, 45}

\* re.sub(r"[^a-zA-Z0-9 _-]", "", n): every other character is removed
remove_disallowed(s) == SelectSeq(s, IsAllowed)

\* n[:20]
MaxNickLen == 20

\* variant: no truncation
clean_nickname_untruncated(n) ==
    remove_disallowed(collapse_whitespace(Strip(n)))

\* clean_nickname: strip, collapse whitespace, remove the disallowed
\* characters, keep the first 20 characters, in this order
clean_nickname(n) ==
    LET stripped == Strip(n)
        collapsed == collapse_whitespace(stripped)
        allowed == remove_disallowed(collapsed)
    IN  SubSeq(allowed, 1, IF Len(allowed) < MaxNickLen THEN Len(allowed) ELSE MaxNickLen)

\* INTEGER PRIMARY KEY AUTOINCREMENT: one more than the largest id in use
NextId(tbl) ==
    IF tbl = {} THEN 1
    ELSE (CHOOSE i \in {r.id : r \in tbl} : \A r \in tbl : r.id <= i) + 1

----------------------------------------------------------------------------
\* DB: the catalog and its seeding

\* default_challenges: (code, title, category, instruction, seconds), with the
\* arrows, dashes and quotation marks of the source texts written in ASCII
default_challenges == <<
    [code |-> "CHALLENGE_MINDSET", title |-> "Challenge mindset",
     category |-> "Stress -> Performance",
     instruction |-> "Pick ONE moment today to reframe as a challenge (not a threat). Say: 'I'm excited' or 'This is practice.'",
     seconds |-> 60],
    [code |-> "BREATH_RESET", title |-> "30-second breathing reset",
     category |-> "Stress -> Performance",
     instruction |-> "Breathe in for 5, out for 5 (or 6) for 3 cycles. Use before meetings/classes.",
     seconds |-> 45],
    [code |-> "SMALL_GOAL", title |-> "Small goal (finishable)",
     category |-> "Momentum",
     instruction |-> "Write ONE small task you will finish today. When done, take 2 minutes to enjoy the win.",
     seconds |-> 90],
    [code |-> "MOVE_10", title |-> "10-minute brisk walk",
     category |-> "Brain boost",
     instruction |-> "Move for 10 minutes (walk counts). Outdoor if possible. Aim to reset your head, not smash a workout.",
     seconds |-> 600],
    [code |-> "SINGLE_TASK", title |-> "Single-task focus",
     category |-> "Workload",
     instruction |-> "Turn off notifications for 20 minutes and do ONE thing properly.",
     seconds |-> 1200],
    [code |-> "POSTURE_CHECK", title |-> "Posture check",
     category |-> "Energy",
     instruction |-> "Sit tall / shoulders open for 60 seconds. Head up. Reset your state.",
     seconds |-> 60],
    [code |-> "RIGHT_HAND_SQUEEZE", title |-> "Right-hand squeeze",
     category |-> "Confidence",
     instruction |-> "Squeeze your right hand firmly for ~45 seconds before a stressful moment (call / presentation).",
     seconds |-> 45],
    [code |-> "PAUSE_BETWEEN", title |-> "Pause between tasks",
     category |-> "Attention",
     instruction |-> "Take a 2-5 minute pause between tasks (breathing / stretch / short reset) instead of rushing.",
     seconds |-> 180] >>

\* a row of table challenges for the values c, stored under the next id
challenge_row(tbl, c) ==
    [id |-> NextId(tbl), code |-> c.code, title |-> c.title, category |-> c.category,
     instruction |-> c.instruction, seconds |-> c.seconds]

\* variant: INSERT OR REPLACE, the row of the same code is deleted and the new
\* values are stored under a new id
insert_or_ignore_replacing(tbl, c) ==
    {r \in tbl : r.code # c.code} \cup {challenge_row(tbl, c)}

\* INSERT OR IGNORE INTO challenges: code is UNIQUE, so a row whose code is
\* already stored is skipped
insert_or_ignore(tbl, c) ==
    IF \E r \in tbl : r.code = c.code
    THEN tbl
    ELSE tbl \cup {challenge_row(tbl, c)}

\* the loop over default_challenges, from its i-th entry on
RECURSIVE seed_from(_, _)
seed_from(tbl, i) ==
    IF i > Len(default_challenges)
    THEN tbl
    ELSE seed_from(insert_or_ignore(tbl, default_challenges[i]), i + 1)

\* init_db: CREATE TABLE IF NOT EXISTS keeps the rows a table has, then the
\* defaults are seeded; the catalog afterwards
init_db(tbl) == seed_from(tbl, 1)

\* The catalogs a database file may hold when init_db finds it: rows the
\* schema admits (code UNIQUE), in the order they were inserted. A default
\* code is absent, stored with the default values or stored with other
\* values; a code of the user's own is absent or stored.
StoredOrder == <<"MY_OWN", "PAUSE_BETWEEN", "BREATH_RESET", "CHALLENGE_MINDSET">>

StoredAs == {"absent", "default", "edited"}

\* the values stored for a code
stored_values(code, as) ==
    IF as = "default" /\ \E i \in DOMAIN default_challenges : default_challenges[i].code = code
    THEN default_challenges[CHOOSE i \in DOMAIN default_challenges :
                                default_challenges[i].code = code]
    ELSE [code |-> code, title |-> "Edited title", category |-> "Edited",
          instruction |-> "Edited instruction", seconds |-> 30]

\* the table after inserting the codes of StoredOrder that f keeps, in order
RECURSIVE stored_catalog(_, _)
stored_catalog(f, i) ==
    IF i = 0 THEN {}
    ELSE LET tbl == stored_catalog(f, i - 1)
         IN  IF f[i] = "absent" THEN tbl
             ELSE tbl \cup {challenge_row(tbl, stored_values(StoredOrder[i], f[i]))}

StoredCatalogs ==
    {stored_catalog(f, Len(StoredOrder)) :
        f \in {g \in [DOMAIN StoredOrder -> StoredAs] : g[1] # "default"}}

----------------------------------------------------------------------------
\* CHALLENGES DB HELPERS

\* variant: every code of the model is a key, 0 where no row is stored
fetch_user_logs_defaulted(author, log_date) ==
    LET rows == {r \in challenge_logs : r.author = author /\ r.log_date = log_date}
    IN  [code \in Codes |->
            IF \E r \in rows : r.challenge_code = code
            THEN (CHOOSE r \in rows : r.challenge_code = code).completed
            ELSE 0]

\* fetch_user_logs: {challenge_code: completed} for a user on a given date
fetch_user_logs(author, log_date) ==
    LET rows == {r \in challenge_logs : r.author = author /\ r.log_date = log_date}
    IN  [code \in {r.challenge_code : r \in rows} |->
            (CHOOSE r \in rows : r.challenge_code = code).completed]

\* the statement of set_challenge_completion on the table tbl: INSERT ... ON
\* CONFLICT(log_date, author, challenge_code) DO UPDATE SET completed =
\* excluded.completed, created_at = excluded.created_at
upsert_completion(tbl, author, log_date, challenge_code, completed, created_at) ==
    LET conflict == {r \in tbl :
                        /\ r.log_date = log_date
                        /\ r.author = author
                        /\ r.challenge_code = challenge_code}
    IN  IF conflict = {}
        THEN tbl \cup
                {[id |-> NextId(tbl), log_date |-> log_date,
                  author |-> author, challenge_code |-> challenge_code,
                  completed |-> completed, created_at |-> created_at]}
        ELSE {IF r \in conflict
                THEN [r EXCEPT !.completed = completed, !.created_at = created_at]
                ELSE r : r \in tbl}

\* variant: a plain INSERT into a table without the UNIQUE constraint
set_challenge_completion_append(author, log_date, challenge_code, completed) ==
    challenge_logs \cup
        {[id |-> NextId(challenge_logs), log_date |-> log_date,
          author |-> author, challenge_code |-> challenge_code,
          completed |-> completed, created_at |-> now_str]}

\* variant: INSERT OR IGNORE, the existing row wins
set_challenge_completion_ignore(author, log_date, challenge_code, completed) ==
    IF \E r \in challenge_logs :
            r.log_date = log_date /\ r.author = author /\ r.challenge_code = challenge_code
    THEN challenge_logs
    ELSE set_challenge_completion_append(author, log_date, challenge_code, completed)

\* variant: on conflict the stored flag is flipped instead of overwritten
set_challenge_completion_toggle(author, log_date, challenge_code, completed) ==
    IF \E r \in challenge_logs :
            r.log_date = log_date /\ r.author = author /\ r.challenge_code = challenge_code
    THEN {IF r.log_date = log_date /\ r.author = author /\ r.challenge_code = challenge_code
            THEN [r EXCEPT !.completed = 1 - r.completed, !.created_at = now_str]
            ELSE r : r \in challenge_logs}
    ELSE set_challenge_completion_append(author, log_date, challenge_code, completed)

\* variant: the conflict target is (log_date, challenge_code), without author
set_challenge_completion_any_author(author, log_date, challenge_code, completed) ==
    IF \E r \in challenge_logs : r.log_date = log_date /\ r.challenge_code = challenge_code
    THEN {IF r.log_date = log_date /\ r.challenge_code = challenge_code
            THEN [r EXCEPT !.completed = completed, !.created_at = now_str]
            ELSE r : r \in challenge_logs}
    ELSE set_challenge_completion_append(author, log_date, challenge_code, completed)

\* set_challenge_completion: INSERT ... ON CONFLICT(log_date, author,
\* challenge_code) DO UPDATE SET completed, created_at; the table afterwards
set_challenge_completion(author, log_date, challenge_code, completed) ==
    upsert_completion(challenge_logs, author, log_date, challenge_code, completed, now_str)

RECURSIVE streak_walk(_, _, _)
\* the while loop of compute_streak
streak_walk(completed_dates, d, streak) ==
    IF StrFDate(d) \in completed_dates
    THEN streak_walk(completed_dates, PrevDay(d), streak + 1)
    ELSE streak

\* the query and the loop of compute_streak on the table tbl: SELECT DISTINCT
\* log_date WHERE author = ? AND completed = 1, then the walk back from today
compute_streak_on(tbl, author) ==
    LET completed_dates ==
            {r.log_date : r \in {x \in tbl : x.author = author /\ x.completed = 1}}
    IN  streak_walk(completed_dates, date_today, 0)

\* variant: the number of days with a completion, gaps or not
compute_streak_total(author) ==
    Cardinality({r.log_date : r \in {x \in challenge_logs :
                                        x.author = author /\ x.completed = 1}})

\* variant: a day of grace, the walk starts yesterday when today has no completion
compute_streak_grace(author) ==
    LET completed_dates ==
            {r.log_date : r \in {x \in challenge_logs :
                                    x.author = author /\ x.completed = 1}}
    IN  IF StrFDate(date_today) \in completed_dates
        THEN streak_walk(completed_dates, date_today, 0)
        ELSE streak_walk(completed_dates, PrevDay(date_today), 0)

\* variant: today taken in a time zone twelve hours ahead of the local one
compute_streak_utc(author) ==
    LET completed_dates ==
            {r.log_date : r \in {x \in challenge_logs :
                                    x.author = author /\ x.completed = 1}}
        d == IF clock.minute + 12 * 60 >= 24 * 60 THEN NextDay(clock.day) ELSE clock.day
    IN  streak_walk(completed_dates, d, 0)

\* compute_streak: consecutive days up to today with at least one completion
compute_streak(author) == compute_streak_on(challenge_logs, author)

\* the query of completed_count_in_range on the table tbl: COUNT(*) of the
\* completed rows with log_date >= start AND log_date <= end, compared as TEXT
completed_count_in_range_on(tbl, author, start_date, end_date) ==
    LET start_str == StrFDate(start_date)
        end_str == StrFDate(end_date)
    IN  Cardinality({r \in tbl :
                        /\ r.author = author
                        /\ r.completed = 1
                        /\ StrLE(start_str, r.log_date)
                        /\ StrLE(r.log_date, end_str)})

\* variant: the end of the range excluded (log_date < end)
completed_count_in_range_exclusive(author, start_date, end_date) ==
    LET start_str == StrFDate(start_date)
        end_str == StrFDate(end_date)
    IN  Cardinality({r \in challenge_logs :
                        /\ r.author = author
                        /\ r.completed = 1
                        /\ StrLE(start_str, r.log_date)
                        /\ StrLE(r.log_date, end_str)
                        /\ r.log_date # end_str})

\* completed_count_in_range: the count on the stored table
completed_count_in_range(author, start_date, end_date) ==
    completed_count_in_range_on(challenge_logs, author, start_date, end_date)

\* variant: every row of the day counted, completed or not
daily_completion_total_on_any(tbl, author, log_date) ==
    Cardinality({r \in tbl : r.author = author /\ r.log_date = log_date})

\* the query of daily_completion_total on the table tbl: COUNT(*) WHERE
\* author = ? AND log_date = ? AND completed = 1
daily_completion_total_on(tbl, author, log_date) ==
    Cardinality({r \in tbl :
                    r.author = author /\ r.log_date = log_date /\ r.completed = 1})

\* variant: every row of the day counted, completed or not
daily_completion_total_any(author, log_date) ==
    Cardinality({r \in challenge_logs : r.author = author /\ r.log_date = log_date})

\* daily_completion_total: COUNT(*) of completed rows of one log_date
daily_completion_total(author, log_date) ==
    daily_completion_total_on(challenge_logs, author, log_date)

\* fetch_reflection: the first row's three fields, or empty strings when no
\* row exists (the columns are never NULL here, so "or ''" changes nothing)
fetch_reflection(author, log_date) ==
    LET rows == {r \in daily_reflections : r.author = author /\ r.log_date = log_date}
    IN  IF rows = {}
        THEN [win |-> <<>>, stress_shift |-> <<>>, note |-> <<>>]
        ELSE LET row == CHOOSE r \in rows : \A o \in rows : r.id <= o.id
             IN  [win |-> row.win, stress_shift |-> row.stress_shift, note |-> row.note]

\* variant: INSERT OR IGNORE, the existing row wins
save_reflection_ignore(author, log_date, win, stress_shift, note) ==
    IF \E r \in daily_reflections : r.log_date = log_date /\ r.author = author
    THEN daily_reflections
    ELSE daily_reflections \cup
            {[id |-> NextId(daily_reflections), log_date |-> log_date,
              author |-> author, win |-> Strip(win),
              stress_shift |-> Strip(stress_shift), note |-> Strip(note),
              created_at |-> now_str]}

\* variant: on conflict an empty field keeps the stored text (partial update)
save_reflection_partial(author, log_date, win, stress_shift, note) ==
    IF \E r \in daily_reflections : r.log_date = log_date /\ r.author = author
    THEN {IF r.log_date = log_date /\ r.author = author
            THEN [r EXCEPT
                    !.win = IF Strip(win) = <<>> THEN r.win ELSE Strip(win),
                    !.stress_shift = IF Strip(stress_shift) = <<>>
                                     THEN r.stress_shift ELSE Strip(stress_shift),
                    !.note = IF Strip(note) = <<>> THEN r.note ELSE Strip(note),
                    !.created_at = now_str]
            ELSE r : r \in daily_reflections}
    ELSE save_reflection_ignore(author, log_date, win, stress_shift, note)

\* save_reflection: INSERT ... ON CONFLICT(log_date, author) DO UPDATE SET
\* win, stress_shift, note, created_at, each text stripped; the table afterwards
save_reflection(author, log_date, win, stress_shift, note) ==
    LET conflict == {r \in daily_reflections :
                        r.log_date = log_date /\ r.author = author}
    IN  IF conflict = {}
        THEN daily_reflections \cup
                {[id |-> NextId(daily_reflections), log_date |-> log_date,
                  author |-> author, win |-> Strip(win),
                  stress_shift |-> Strip(stress_shift), note |-> Strip(note),
                  created_at |-> now_str]}
        ELSE {IF r \in conflict
                THEN [r EXCEPT !.win = Strip(win),
                               !.stress_shift = Strip(stress_shift),
                               !.note = Strip(note),
                               !.created_at = now_str]
                ELSE r : r \in daily_reflections}

----------------------------------------------------------------------------
\* COMMUNITY DB HELPERS

\* variant: the nickname is compared with "" as it is, unstripped
require_nickname_or_stop_unstripped(nick) == nick # <<>>

\* require_nickname_or_stop: TRUE when the script goes on, FALSE when it
\* stops because the nickname is blank
require_nickname_or_stop(nick) == Strip(nick) # <<>>

\* variant: a post of the same author under the same title is replaced
add_post_replacing(author, category, title, body) ==
    {r \in posts : ~(r.author = author /\ r.title = Strip(title))}
        \cup {[id |-> NextId(posts), created_at |-> now_str, author |-> author,
                category |-> category, title |-> Strip(title), body |-> Strip(body)]}

\* add_post: INSERT INTO posts, title and body stripped; the table afterwards
add_post(author, category, title, body) ==
    posts \cup {[id |-> NextId(posts), created_at |-> now_str, author |-> author,
                 category |-> category, title |-> Strip(title), body |-> Strip(body)]}

\* add_reply: INSERT INTO replies, body stripped; the table afterwards
add_reply(post_id, author, body) ==
    replies \cup {[id |-> NextId(replies), post_id |-> post_id, created_at |-> now_str,
                   author |-> author, body |-> Strip(body)]}

----------------------------------------------------------------------------
\* The challenges page

\* ORDER BY id ASC
RECURSIVE order_by_id(_)
order_by_id(tbl) ==
    IF tbl = {} THEN <<>>
    ELSE LET first == CHOOSE r \in tbl : \A o \in tbl : r.id <= o.id
         IN  <<first>> \o order_by_id(tbl \ {first})

\* fetch_challenges: the rows of the catalog tbl in the order of their ids
fetch_challenges(tbl) == order_by_id(tbl)

\* the keys of by_cat: the categories in the order of their first row
RECURSIVE by_cat_keys(_)
by_cat_keys(rows) ==
    IF rows = <<>> THEN <<>>
    ELSE LET before == by_cat_keys(SubSeq(rows, 1, Len(rows) - 1))
             cat == rows[Len(rows)].category
         IN  IF \E i \in DOMAIN before : before[i] = cat THEN before
             ELSE Append(before, cat)

\* the rows in the order the two loops over by_cat visit them
RECURSIVE by_cat_items(_, _)
by_cat_items(rows, cats) ==
    IF cats = <<>> THEN <<>>
    ELSE SelectSeq(rows, LAMBDA r : r.category = Head(cats))
            \o by_cat_items(rows, Tail(cats))

\* What st.checkbox(value=default_checked, key="chk_<log_date>_<code>")
\* returns: a checkbox shown in the last run for the same key keeps the value
\* it has (flipped when the user has just clicked it), a new one takes
\* default_checked = bool(existing.get(code, 0))
checkbox(code, selected, existing, ev) ==
    IF widgets.selected = selected /\ code \in DOMAIN widgets.checked
    THEN IF ev.type = "toggle" /\ ev.code = code
         THEN 1 - widgets.checked[code]
         ELSE widgets.checked[code]
    ELSE IF code \in DOMAIN existing /\ existing[code] # 0 THEN 1 ELSE 0

\* the loop of page_challenges: set_challenge_completion for every item
RECURSIVE save_checkboxes(_, _, _, _, _)
save_checkboxes(tbl, items, author, log_date, checked) ==
    IF items = <<>> THEN tbl
    ELSE save_checkboxes(
            upsert_completion(tbl, author, log_date, Head(items).code,
                              checked[Head(items).code], now_str),
            Tail(items), author, log_date, checked)

----------------------------------------------------------------------------
\* State machine

NoCall == [call |-> [op |-> "none"], n |-> 0]

\* the latest call, counted 2 when it repeats the call before it
Repeated(call) == [call |-> call, n |-> IF last.call = call THEN 2 ELSE 1]

\* the script runs that may call into the database at the same time
Procs == {"s1", "s2", "s3"}

\* a caller outside set_challenge_completion
Idle == [pc |-> "idle"]

\* the widgets of a new session: an empty nickname field, no date field and
\* no checkbox of the challenges page
NoWidgets == [nick |-> <<>>, today |-> <<>>, selected |-> <<>>, checked |-> <<>>]

\* empty tables, a new session (page "Home", nickname ""), nobody in a call
InitStore ==
    /\ challenge_logs = {}
    /\ daily_reflections = {}
    /\ clock = StartClock
    /\ ticks = 0
    /\ ops = 0
    /\ written = <<>>
    /\ saved = <<>>
    /\ last = NoCall
    /\ posts = {}
    /\ replies = {}
    /\ nickname = <<>>
    /\ page = "Home"
    /\ conn = [p \in Procs |-> Idle]
    /\ db_lock = "none"
    /\ committed = <<>>

\* the state after init_db has run on a new database file
Init ==
    /\ InitStore
    /\ challenges = init_db({})
    /\ widgets = NoWidgets

\* the state before init_db runs on a database file that already holds a catalog
InitSeed ==
    /\ InitStore
    /\ challenges \in StoredCatalogs
    /\ widgets = NoWidgets

\* a new session in which a text has been typed into the nickname field
InitNick ==
    /\ InitStore
    /\ challenges = init_db({})
    /\ widgets \in {[NoWidgets EXCEPT !.nick = t] : t \in NickTexts}

\* the script runs init_db once more
InitDb ==
    /\ ops < MaxOps
    /\ challenges' = init_db(challenges)
    /\ last' = Repeated([op |-> "init_db"])
    /\ ops' = ops + 1
    /\ UNCHANGED <<challenge_logs, daily_reflections, clock, ticks, written, saved>>
    /\ UNCHANGED <<posts, replies, nickname, page, widgets, conn, db_lock, committed>>

\* the wall clock advances
Tick ==
    /\ clock # EndClock
    /\ ticks' = ticks + 1
    /\ clock' = IF clock.minute + StepMinutes < 24 * 60
                THEN [clock EXCEPT !.minute = clock.minute + StepMinutes]
                ELSE [day |-> NextDay(clock.day),
                      minute |-> clock.minute + StepMinutes - 24 * 60]
    /\ UNCHANGED <<challenge_logs, daily_reflections, ops, written, saved, last>>
    /\ UNCHANGED appvars

\* a caller runs set_challenge_completion(author, log_date, code, completed)
SetCompletion ==
    /\ ops < MaxOps
    /\ \E author \in Users, d \in LogDates, code \in Codes, completed \in CompletedValues :
        LET log_date == StrFDate(d)
            key == <<author, log_date, code>>
            call == [op |-> "set", author |-> author, log_date |-> log_date,
                     challenge_code |-> code, completed |-> completed]
        IN  /\ challenge_logs' = set_challenge_completion(author, log_date, code, completed)
            /\ written' = [k \in DOMAIN written \cup {key} |->
                              IF k = key THEN completed ELSE written[k]]
            /\ last' = Repeated(call)
    /\ ops' = ops + 1
    /\ UNCHANGED <<daily_reflections, clock, ticks, saved>>
    /\ UNCHANGED appvars

\* a caller runs save_reflection(author, log_date, win, stress_shift, note)
SaveReflection ==
    /\ ops < MaxSaves
    /\ \E author \in Users, d \in ReflDates,
          win \in WinTexts, stress_shift \in ShiftTexts, note \in NoteTexts :
        LET log_date == StrFDate(d)
            key == <<author, log_date>>
            call == [op |-> "save", author |-> author, log_date |-> log_date,
                     win |-> win, stress_shift |-> stress_shift, note |-> note]
        IN  /\ daily_reflections' = save_reflection(author, log_date, win, stress_shift, note)
            /\ saved' = [k \in DOMAIN saved \cup {key} |->
                            IF k = key THEN call ELSE saved[k]]
            /\ last' = Repeated(call)
    /\ ops' = ops + 1
    /\ UNCHANGED <<challenge_logs, clock, ticks, written>>
    /\ UNCHANGED appvars

\* a caller runs set_challenge_completion with any texts as author and
\* log_date; the function has no check and no raise, so it returns
CallSetCompletion ==
    /\ ops < MaxOps
    /\ \E author \in RawAuthors, log_date \in RawDates,
          code \in Codes, completed \in CompletedValues :
        /\ challenge_logs' = set_challenge_completion(author, log_date, code, completed)
        /\ last' = Repeated([op |-> "set", author |-> author, log_date |-> log_date,
                             challenge_code |-> code, completed |-> completed,
                             outcome |-> "returned"])
    /\ ops' = ops + 1
    /\ UNCHANGED <<daily_reflections, clock, ticks, written, saved>>
    /\ UNCHANGED appvars

\* variant: no write lock, a statement runs while another caller's
\* transaction is open
can_write_unlocked(p) == TRUE

\* SQLite admits one writer: the statement gets the write lock when no other
\* connection holds it
can_write(p) == db_lock = "none"

\* caller p enters set_challenge_completion: it opens a connection of its own
\* and evaluates the arguments of execute, now_str() among them
BeginCall(p) ==
    /\ ops < MaxOps
    /\ conn[p] = Idle
    /\ \E code \in Codes, completed \in CompletedValues :
        conn' = [conn EXCEPT ![p] =
                    [pc |-> "called",
                     call |-> [author |-> "MsH", log_date |-> StrFDate(StartClock.day),
                               challenge_code |-> code, completed |-> completed,
                               created_at |-> now_str]]]
    /\ ops' = ops + 1
    /\ UNCHANGED <<challenge_logs, daily_reflections, clock, ticks, written, saved, last>>
    /\ UNCHANGED <<challenges, posts, replies, nickname, page, widgets, db_lock, committed>>

\* cur.execute: the statement takes the write lock and runs in a transaction
\* of p's connection, on the committed table
Execute(p) ==
    /\ conn[p].pc = "called"
    /\ can_write(p)
    /\ db_lock' = p
    /\ conn' = [conn EXCEPT ![p] =
                    [pc |-> "executed", call |-> conn[p].call,
                     txn |-> upsert_completion(challenge_logs, conn[p].call.author,
                                conn[p].call.log_date, conn[p].call.challenge_code,
                                conn[p].call.completed, conn[p].call.created_at)]]
    /\ UNCHANGED datavars
    /\ UNCHANGED <<challenges, posts, replies, nickname, page, widgets, committed>>

\* cur.execute while another connection holds the write lock: after the busy
\* timeout sqlite3 raises OperationalError and the call ends without a write
Busy(p) ==
    /\ conn[p].pc = "called"
    /\ db_lock \notin {"none", p}
    /\ conn' = [conn EXCEPT ![p] = Idle]
    /\ UNCHANGED datavars
    /\ UNCHANGED <<challenges, posts, replies, nickname, page, widgets, db_lock, committed>>

\* conn.commit and conn.close: the transaction becomes the stored table and
\* the lock is released
Commit(p) ==
    /\ conn[p].pc = "executed"
    /\ challenge_logs' = conn[p].txn
    /\ db_lock' = "none"
    /\ committed' = Append(committed, conn[p].call)
    /\ conn' = [conn EXCEPT ![p] = Idle]
    /\ UNCHANGED <<daily_reflections, clock, ticks, ops, written, saved, last>>
    /\ UNCHANGED <<challenges, posts, replies, nickname, page, widgets>>

\* One run of the script after the event ev of the user: init_db, the sidebar
\* (page buttons, nickname field, "Clear my nickname" with its rerun), then
\* the page. The challenges page saves every checkbox of the catalog on every
\* run; the community page writes a post or a reply when its button was hit.
RunScript(ev) ==
    LET catalog == init_db(challenges)
        page_now == IF ev.type = "nav" THEN ev.page ELSE page
        returned == IF ev.type = "type" THEN ev.text ELSE widgets.nick
        cleaned == clean_nickname(returned)
        nick == IF ev.type = "clear" THEN <<>> ELSE cleaned
        \* the nickname field is a new widget whenever its value= changes
        field == IF ev.type = "clear" THEN <<>>
                 ELSE IF cleaned = nickname THEN returned ELSE cleaned
        goes_on == require_nickname_or_stop(nick)
        author == Strip(nick)
        \* the date field is a new widget whenever its value=date.today() changes
        selected == IF ev.type = "date" THEN ev.date
                    ELSE IF widgets.selected # <<>> /\ widgets.today = date_today
                         THEN widgets.selected
                    ELSE date_today
        log_date == StrFDate(selected)
        existing == fetch_user_logs(author, log_date)
        rows == fetch_challenges(catalog)
        items == by_cat_items(rows, by_cat_keys(rows))
        checked == [code \in {r.code : r \in catalog} |->
                        checkbox(code, selected, existing, ev)]
    IN  /\ challenges' = catalog
        /\ page' = page_now
        /\ nickname' = nick
        /\ IF page_now = "Challenges" /\ goes_on
           THEN /\ challenge_logs' =
                        save_checkboxes(challenge_logs, items, author, log_date, checked)
                /\ daily_reflections' =
                        IF ev.type = "save"
                        THEN save_reflection(author, log_date, ev.win, ev.stress_shift, ev.note)
                        ELSE daily_reflections
                /\ widgets' = [nick |-> field, today |-> date_today,
                               selected |-> selected, checked |-> checked]
           ELSE /\ UNCHANGED <<challenge_logs, daily_reflections>>
                /\ widgets' = [NoWidgets EXCEPT !.nick = field]
        /\ posts' = IF /\ page_now = "Community" /\ ev.type = "post" /\ goes_on
                       /\ Strip(ev.title) # <<>> /\ Strip(ev.body) # <<>>
                    THEN add_post(author, ev.category, ev.title, ev.body)
                    ELSE posts
        /\ replies' = IF /\ page_now = "Community" /\ ev.type = "reply" /\ goes_on
                         /\ Strip(ev.body) # <<>>
                      THEN add_reply(ev.post_id, author, ev.body)
                      ELSE replies
        /\ last' = Repeated([op |-> "run", event |-> ev, returned |-> returned])
        /\ ops' = ops + 1
        /\ UNCHANGED <<clock, ticks, written, saved, conn, db_lock, committed>>

\* the script runs again with nothing new from the user
Rerun ==
    /\ ops < MaxRuns
    /\ RunScript([type |-> "none"])

\* a page button of the sidebar
Navigate ==
    /\ ops < MaxRuns
    /\ \E p \in AppPages : RunScript([type |-> "nav", page |-> p])

\* a text entered into the nickname field
TypeNickname ==
    /\ ops < MaxRuns
    /\ \E t \in AppNickTexts : RunScript([type |-> "type", text |-> t])

\* the button "Clear my nickname"
ClearNickname ==
    /\ ops < MaxRuns
    /\ RunScript([type |-> "clear"])

\* another date picked in the date field of the challenges page
SelectDate ==
    /\ ops < MaxRuns
    /\ page = "Challenges" /\ widgets.selected # <<>>
    /\ \E d \in AppDates : RunScript([type |-> "date", date |-> d])

\* a click on a checkbox of the challenges page
ToggleCheckbox ==
    /\ ops < MaxRuns
    /\ page = "Challenges" /\ widgets.selected # <<>>
    /\ \E code \in Codes \cap DOMAIN widgets.checked :
            RunScript([type |-> "toggle", code |-> code])

\* the button "Save reflection" of the challenges page
ClickSaveReflection ==
    /\ ops < MaxRuns
    /\ page = "Challenges" /\ widgets.selected # <<>>
    /\ \E win \in WinTexts :
            RunScript([type |-> "save", win |-> win, stress_shift |-> <<98>>, note |-> <<>>])

\* the button "Post" of the community page
ClickPost ==
    /\ ops < MaxRuns
    /\ page = "Community"
    /\ \E category \in PostCategories, title \in PostTitles, body \in PostBodies :
            RunScript([type |-> "post", category |-> category, title |-> title, body |-> body])

\* the button "Submit reply" under a post of the community page
ClickReply ==
    /\ ops < MaxRuns
    /\ page = "Community"
    /\ \E post \in posts, body \in ReplyBodies :
            RunScript([type |-> "reply", post_id |-> post.id, body |-> body])

\* a caller runs add_post(author, category, title, body)
AddPost ==
    /\ ops < MaxOps
    /\ \E author \in Users, category \in PostCategories,
          title \in PostTitles, body \in PostBodies :
        /\ posts' = add_post(author, category, title, body)
        /\ last' = Repeated([op |-> "add_post", author |-> author, category |-> category,
                             title |-> title, body |-> body])
    /\ ops' = ops + 1
    /\ UNCHANGED <<challenge_logs, daily_reflections, clock, ticks, written, saved>>
    /\ UNCHANGED <<challenges, replies, nickname, page, widgets, conn, db_lock, committed>>

\* a caller runs add_reply(post_id, author, body) for a stored post
AddReply ==
    /\ ops < MaxOps
    /\ \E post \in posts, author \in Users, body \in ReplyBodies :
        /\ replies' = add_reply(post.id, author, body)
        /\ last' = Repeated([op |-> "add_reply", post_id |-> post.id, author |-> author,
                             body |-> body])
    /\ ops' = ops + 1
    /\ UNCHANGED <<challenge_logs, daily_reflections, clock, ticks, written, saved>>
    /\ UNCHANGED <<challenges, posts, nickname, page, widgets, conn, db_lock, committed>>

\* the completion log under set_challenge_completion calls and the clock
Next == SetCompletion \/ Tick

Spec == Init /\ [][Next]_vars

\* the completion log under set_challenge_completion calls at one instant,
\* for the readers that use neither the clock nor created_at
NextCalls == SetCompletion

SpecCalls == Init /\ [][NextCalls]_vars

\* the reflections under save_reflection calls and the clock
NextRefl == SaveReflection \/ Tick

SpecRefl == Init /\ [][NextRefl]_vars

\* the catalog under repeated runs of init_db, from any stored catalog
NextSeed == InitDb

SpecSeed == InitSeed /\ [][NextSeed]_vars

\* the completion log under set_challenge_completion calls that overlap
NextConc ==
    \/ \E p \in Procs : BeginCall(p)
    \/ \E p \in Procs : Execute(p)
    \/ \E p \in Procs : Busy(p)
    \/ \E p \in Procs : Commit(p)
    \/ Tick

SpecConc == Init /\ [][NextConc]_vars

\* the nickname under runs of the script, from any typed text
NextNick == Rerun

SpecNick == InitNick /\ [][NextNick]_vars

\* a session of the application: every event of the user and the run after it
NextApp ==
    \/ Rerun
    \/ Navigate
    \/ TypeNickname
    \/ ClearNickname
    \/ SelectDate
    \/ ToggleCheckbox
    \/ ClickSaveReflection
    \/ ClickPost
    \/ ClickReply
    \/ Tick

SpecApp == Init /\ [][NextApp]_vars

\* the community tables under add_post and add_reply calls and the clock
NextPosts == AddPost \/ AddReply \/ Tick

SpecPosts == Init /\ [][NextPosts]_vars

\* both tables of the challenges page and the posts under the calls of their
\* writers at one instant
NextWrites == SetCompletion \/ SaveReflection \/ AddPost

SpecWrites == Init /\ [][NextWrites]_vars

\* the completion log under set_challenge_completion calls with any arguments
NextRaw == CallSetCompletion

SpecRaw == Init /\ [][NextRaw]_vars

----------------------------------------------------------------------------
\* Properties of the completion log

\* the rows of challenge_logs stored under one key
RowsOf(log_date, author, challenge_code) ==
    {r \in challenge_logs :
        r.log_date = log_date /\ r.author = author /\ r.challenge_code = challenge_code}

\* the table without ids and timestamps
LogContent ==
    {<<r.log_date, r.author, r.challenge_code, r.completed>> : r \in challenge_logs}

\* C1: after any sequence of set_challenge_completion calls, challenge_logs
\* holds at most one row per (log_date, author, challenge_code).
C1_OneRowPerKey ==
    \A r1, r2 \in challenge_logs :
        (r1.log_date = r2.log_date /\ r1.author = r2.author
            /\ r1.challenge_code = r2.challenge_code) => r1 = r2

\* two calls were made and both hit the same key
C1_Witness == ops = 2 /\ Cardinality(challenge_logs) = 1 /\ C1_OneRowPerKey

\* C2: last write wins: for every key written at least once,
\* fetch_user_logs(author, log_date)[code] is the completed value of the most
\* recent set_challenge_completion call for that key.
C2_LastWriteWins ==
    \A key \in DOMAIN written :
        LET logs == fetch_user_logs(key[1], key[2])
        IN  key[3] \in DOMAIN logs /\ logs[key[3]] = written[key]

\* a key written twice with different values holds the second value
C2_Witness ==
    /\ ops = 2 /\ last.n = 1 /\ Cardinality(challenge_logs) = 1
    /\ last.call.completed = 0
    /\ fetch_user_logs(last.call.author, last.call.log_date)[last.call.challenge_code] = 0

\* C3: set_challenge_completion is idempotent: a call that repeats the call
\* made right before it leaves the (log_date, author, challenge_code,
\* completed) content of the table as it was, with exactly one row for the key.
C3_Idempotent ==
    [][(ops' = ops + 1 /\ last'.call.op = "set" /\ last'.n = 2) =>
        /\ LogContent' = LogContent
        /\ Cardinality(RowsOf(last.call.log_date, last.call.author,
                              last.call.challenge_code)') = 1]_vars

\* the same call was made twice in a row, the second time after the clock moved
C3_Witness ==
    /\ last.call.op = "set" /\ last.n = 2 /\ ticks > 0
    /\ \E r \in RowsOf(last.call.log_date, last.call.author, last.call.challenge_code) :
            r.completed = last.call.completed /\ r.created_at = now_str

----------------------------------------------------------------------------
\* Properties of the aggregates

\* the dates the aggregates are asked about: the logged dates, the Monday of
\* the week before them and the day after them
QueryDates == LogDates \cup {<<2023, 12, 25>>, <<2024, 1, 3>>}

\* the stored text of each logged date
Formatted == [d \in LogDates |-> StrFDate(d)]

\* user u has at least one completed row dated d
HasCompleted(u, d) ==
    \E r \in challenge_logs :
        r.author = u /\ r.completed = 1 /\ r.log_date = StrFDate(d)

\* C4: compute_streak(u), with the reference date being today, is the largest
\* n such that each of the n days today, today-1, ..., today-(n-1) has a
\* completed row of u; completed days beyond the first missing day add nothing.
C4_StreakIsUnbrokenTail ==
    \A u \in Users :
        LET n == compute_streak(u)
        IN  /\ n >= 0
            /\ \A i \in 0..(n - 1) : HasCompleted(u, MinusDays(date_today, i))
            /\ ~HasCompleted(u, MinusDays(date_today, n))

\* a completed day, a gap, then today completed: the streak is 1
C4_Witness ==
    \E u \in Users :
        /\ HasCompleted(u, date_today)
        /\ ~HasCompleted(u, MinusDays(date_today, 1))
        /\ HasCompleted(u, MinusDays(date_today, 2))
        /\ compute_streak(u) = 1

\* C5: whenever u has no completed row dated today, compute_streak(u) is 0,
\* also when yesterday is completed and also when u has no rows at all.
C5_AnchoredAtToday ==
    \A u \in Users : ~HasCompleted(u, date_today) => compute_streak(u) = 0

\* yesterday is completed, today is not: the streak is 0
C5_Witness ==
    \E u \in Users :
        /\ ~HasCompleted(u, date_today)
        /\ HasCompleted(u, MinusDays(date_today, 1))
        /\ compute_streak(u) = 0

C7_RangeCountsRows ==
    \A u \in Users :
        LET done == {r \in challenge_logs : r.author = u /\ r.completed = 1}
        IN  \A start \in QueryDates, end \in QueryDates :
                completed_count_in_range(u, start, end) =
                    Cardinality({r \in done :
                        \E d \in LogDates :
                            r.log_date = Formatted[d] /\ DateLE(start, d) /\ DateLE(d, end)})

\* two completed challenges on the last day of a range across the year's end
C7_Witness ==
    \E u \in Users, d \in LogDates :
        /\ d[1] = 2024
        /\ Cardinality({r \in challenge_logs :
                r.author = u /\ r.completed = 1 /\ r.log_date = StrFDate(d)}) = 2
        /\ completed_count_in_range(u, <<2023, 12, 25>>, d) = 2

\* C8: daily_completion_total(u, d) equals completed_count_in_range(u, d, d).
C8_DailyIsOneDayRange ==
    \A u \in Users, d \in QueryDates :
        daily_completion_total(u, StrFDate(d)) = completed_count_in_range(u, d, d)

\* a day with one completed and one not completed row
C8_Witness ==
    \E u \in Users, d \in LogDates :
        /\ daily_completion_total(u, StrFDate(d)) = 1
        /\ completed_count_in_range(u, d, d) = 1
        /\ \E r \in challenge_logs :
                r.author = u /\ r.log_date = StrFDate(d) /\ r.completed = 0

----------------------------------------------------------------------------
\* Properties of the reflections

NoReflection == [win |-> <<>>, stress_shift |-> <<>>, note |-> <<>>]

\* fetch_reflection for a key without a row returns three empty strings
AbsentIsEmpty ==
    \A u \in Users, d \in LogDates :
        (~\E r \in daily_reflections : r.author = u /\ r.log_date = StrFDate(d))
            => fetch_reflection(u, StrFDate(d)) = NoReflection

\* C9 as stated: after save_reflection(u, d, w, s, n), fetch_reflection(u, d)
\* returns exactly {win: w, stress_shift: s, note: n}, surrounding whitespace
\* included; a key with no row reads as three empty strings.
C9_RoundTripExact ==
    /\ last.call.op = "save" =>
            fetch_reflection(last.call.author, last.call.log_date) =
                [win |-> last.call.win, stress_shift |-> last.call.stress_shift,
                 note |-> last.call.note]
    /\ AbsentIsEmpty

\* C9 as amended: after save_reflection(u, d, w, s, n), fetch_reflection(u, d)
\* returns w, s and n each with its surrounding whitespace stripped; a key
\* with no row reads as three empty strings.
C9_RoundTripStripped ==
    /\ last.call.op = "save" =>
            fetch_reflection(last.call.author, last.call.log_date) =
                [win |-> Strip(last.call.win),
                 stress_shift |-> Strip(last.call.stress_shift),
                 note |-> Strip(last.call.note)]
    /\ AbsentIsEmpty

\* a padded win was saved over an earlier reflection and reads back stripped,
\* while another key still reads as empty
C9_Witness ==
    /\ last.call.op = "save" /\ ops = 2 /\ Cardinality(daily_reflections) = 1
    /\ last.call.win = <<32, 97, 32>>
    /\ fetch_reflection(last.call.author, last.call.log_date).win = <<97>>
    /\ \E u \in Users : fetch_reflection(u, last.call.log_date) = NoReflection

\* at most one row of daily_reflections per (log_date, author)
OneReflectionPerKey ==
    \A r1, r2 \in daily_reflections :
        (r1.log_date = r2.log_date /\ r1.author = r2.author) => r1 = r2

\* C10 as stated: daily_reflections holds at most one row per (log_date,
\* author), and that row carries the three fields of the most recent save
\* for the key as they were passed in.
C10_RowCarriesLastSave ==
    /\ OneReflectionPerKey
    /\ \A key \in DOMAIN saved :
        \E r \in daily_reflections :
            /\ r.author = key[1] /\ r.log_date = key[2]
            /\ r.win = saved[key].win
            /\ r.stress_shift = saved[key].stress_shift
            /\ r.note = saved[key].note

\* C10 as amended: daily_reflections holds at most one row per (log_date,
\* author), and that row carries the three fields of the most recent save
\* for the key, each stripped of surrounding whitespace; the three are
\* replaced as a unit, an empty field overwriting an earlier text.
C10_RowCarriesStrippedLastSave ==
    /\ OneReflectionPerKey
    /\ \A key \in DOMAIN saved :
        \E r \in daily_reflections :
            /\ r.author = key[1] /\ r.log_date = key[2]
            /\ r.win = Strip(saved[key].win)
            /\ r.stress_shift = Strip(saved[key].stress_shift)
            /\ r.note = Strip(saved[key].note)

\* a key saved twice, the second time with all fields empty and different
\* from the first: the one row holds three empty fields
C10_Witness ==
    /\ ops = 2 /\ last.n = 1 /\ Cardinality(daily_reflections) = 1
    /\ last.call.op = "save"
    /\ last.call.win = <<>> /\ last.call.stress_shift = <<>> /\ last.call.note = <<>>
    /\ \A r \in daily_reflections : r.win = <<>> /\ r.stress_shift = <<>> /\ r.note = <<>>

----------------------------------------------------------------------------
\* Properties of the catalog

DefaultCodes == {default_challenges[i].code : i \in DOMAIN default_challenges}

\* C11: seeding is insert-if-absent and idempotent: after every run of
\* init_db, on any stored catalog and however often it has run before, there
\* is exactly one row per default code, and every row stored before the run is
\* still stored with the same id, title, category, instruction and seconds
\* (none changed, none deleted).
C11_SeedInsertIfAbsent ==
    [][ops' = ops + 1 =>
        /\ \A c \in DefaultCodes : Cardinality({r \in challenges' : r.code = c}) = 1
        /\ \A r \in challenges : r \in challenges']_vars

\* init_db has run twice on a catalog that held a default code with other
\* values and a code of the user's own
C11_Witness ==
    /\ ops = 2
    /\ last = [call |-> [op |-> "init_db"], n |-> 2]
    /\ \E r \in challenges : r.code \in DefaultCodes /\ r.title = "Edited title"
    /\ \E r \in challenges : r.code = "MY_OWN"
    /\ Cardinality(challenges) = Len(default_challenges) + 1

----------------------------------------------------------------------------
\* Properties of the arguments of set_challenge_completion

IsDigit(c) == c \in 48..57

\* the number written by the digits s[i..j]
RECURSIVE Number(_, _, _)
Number(s, i, j) == IF j < i THEN 0 ELSE 10 * Number(s, i, j - 1) + (s[j] - 48)

\* s is YYYY-MM-DD and names a day of the calendar
IsCalendarDate(s) ==
    /\ Len(s) = 10
    /\ s[5] = 45 /\ s[8] = 45
    /\ \A i \in {1, 2, 3, 4, 6, 7, 9, 10} : IsDigit(s[i])
    /\ Number(s, 1, 4) >= 1
    /\ Number(s, 6, 7) \in 1..12
    /\ Number(s, 9, 10) \in 1..DaysInMonth(Number(s, 1, 4), Number(s, 6, 7))

\* C12: a set_challenge_completion call with an empty author or with a
\* log_date that is no calendar date fails with a ValidationError and leaves
\* challenge_logs exactly as it was.
C12_InvalidCallRejected ==
    [][(/\ ops' = ops + 1
        /\ last'.call.op = "set"
        /\ (last'.call.author = "" \/ ~IsCalendarDate(last'.call.log_date)))
       => (/\ last'.call.outcome = "ValidationError"
           /\ challenge_logs' = challenge_logs)]_vars

----------------------------------------------------------------------------
\* Properties of overlapping calls

\* the i-th commit is the latest one of its key
IsLastCommit(i) ==
    \A j \in DOMAIN committed :
        (/\ committed[j].log_date = committed[i].log_date
         /\ committed[j].author = committed[i].author
         /\ committed[j].challenge_code = committed[i].challenge_code) => j <= i

\* C13: under any interleaving of overlapping set_challenge_completion
\* calls, every key that a call has committed holds exactly one row, and that
\* row's completed and created_at are both those of the call that committed
\* last for the key: no committed write is lost and no row mixes two calls.
C13_AtomicUpsert ==
    \A i \in DOMAIN committed :
        IsLastCommit(i) =>
            LET c == committed[i]
                rows == RowsOf(c.log_date, c.author, c.challenge_code)
            IN  /\ Cardinality(rows) = 1
                /\ \A r \in rows : r.completed = c.completed /\ r.created_at = c.created_at

\* two calls for one key overlapped: the call that evaluated now_str() first
\* committed last, with the other completed value
C13_Witness ==
    /\ Len(committed) = 2
    /\ committed[1].challenge_code = committed[2].challenge_code
    /\ committed[1].completed # committed[2].completed
    /\ committed[1].created_at # committed[2].created_at
    /\ StrLE(committed[2].created_at, committed[1].created_at)
    /\ C13_AtomicUpsert

----------------------------------------------------------------------------
\* Properties of the nickname and of the pages

\* C14: clean_nickname is total and bounded: for every text the nickname
\* field returns, the stored nickname is computed without error, has at most
\* 20 characters, each one of [A-Za-z0-9 _-], and the empty text gives the
\* empty nickname.
C14_NicknameBounded ==
    /\ Len(nickname) <= 20
    /\ \A i \in DOMAIN nickname :
            nickname[i] \in (97..122) \cup (65..90) \cup (48..57) \cup {32, 95, 45}
    /\ (last.call.op = "run" /\ last.call.returned = <<>>) => nickname = <<>>

\* a text of more than 20 characters with a disallowed one was cleaned to a
\* nickname of 20 characters
C14_Witness ==
    /\ last.call.op = "run"
    /\ Len(last.call.returned) > 20
    /\ \E i \in DOMAIN last.call.returned : last.call.returned[i] = 33
    /\ Len(nickname) = 20
    /\ C14_NicknameBounded

\* C15: no write with an empty identity: in every state of a session (any
\* nickname edits and clears, page visits, checkbox clicks, reflection saves,
\* posts and replies) every row of challenge_logs, daily_reflections, posts
\* and replies has a non-empty author.
C15_AuthorNeverEmpty ==
    \A r \in challenge_logs \cup daily_reflections \cup posts \cup replies :
        r.author # <<>>

\* the session has written on the challenges page and on the community page
C15_Witness ==
    /\ challenge_logs # {}
    /\ posts # {}
    /\ C15_AuthorNeverEmpty

\* C18: the result of clean_nickname is trimmed and collapsed: the nickname
\* has no leading space, no trailing space and no two adjacent spaces.
C18_TrimmedAndCollapsed ==
    /\ nickname # <<>> => (nickname[1] # 32 /\ nickname[Len(nickname)] # 32)
    /\ \A i \in 1..(Len(nickname) - 1) : ~(nickname[i] = 32 /\ nickname[i + 1] = 32)

\* C19: a row of challenge_logs is written only when the user clicks a
\* checkbox: a run of the script after any other event (the page shown, the
\* date or the nickname changed, a rerun) adds no row to challenge_logs and
\* changes no row's completed or created_at.
C19_DisplayWritesNothing ==
    [][(/\ ops' = ops + 1
        /\ last'.call.op = "run"
        /\ last'.call.event.type # "toggle")
       => challenge_logs' = challenge_logs]_vars

----------------------------------------------------------------------------
\* Properties of the readers

\* C16: rows with completed = 0 count for nothing: for every key whose
\* latest call stored completed = 0 (as after set(u, d, c, 1) followed by
\* set(u, d, c, 0)), the streak, the range counts and the daily totals of the
\* user are what they are on the table without that key's row.
C16_FalseRowsCountForNothing ==
    \A key \in DOMAIN written :
        written[key] = 0 =>
            LET u == key[1]
                without == challenge_logs \ RowsOf(key[2], key[1], key[3])
            IN  /\ compute_streak_on(challenge_logs, u) = compute_streak_on(without, u)
                /\ \A s \in LogDates, e \in LogDates :
                        completed_count_in_range_on(challenge_logs, u, s, e)
                            = completed_count_in_range_on(without, u, s, e)
                /\ \A d \in LogDates :
                        daily_completion_total_on(challenge_logs, u, Formatted[d])
                            = daily_completion_total_on(without, u, Formatted[d])

\* a key was set to 1 and then to 0, and it is the only row
C16_Witness ==
    /\ ops = 2
    /\ Cardinality(challenge_logs) = 1
    /\ last.n = 1
    /\ last.call.completed = 0
    /\ \A r \in challenge_logs : r.completed = 0
    /\ C16_FalseRowsCountForNothing

\* C17: for every user and date, the keys of fetch_user_logs(u, d) are
\* exactly the codes with a stored row of u on d, each with that row's
\* completed; rows of other users and dates do not appear and a code without a
\* row is no key.
C17_LogsAreStoredRows ==
    \A u \in Users, d \in QueryDates :
        LET logs == fetch_user_logs(u, StrFDate(d))
            rows == {r \in challenge_logs : r.author = u /\ r.log_date = StrFDate(d)}
        IN  /\ DOMAIN logs = {r.challenge_code : r \in rows}
            /\ \A r \in rows : logs[r.challenge_code] = r.completed

\* one user has a row with completed = 0 and another user has a row on the
\* same date: the first user's mapping has one key
C17_Witness ==
    /\ \E r1, r2 \in challenge_logs :
            /\ r1.author # r2.author
            /\ r1.log_date = r2.log_date
            /\ r1.challenge_code # r2.challenge_code
            /\ r1.completed = 0
            /\ DOMAIN fetch_user_logs(r1.author, r1.log_date) = {r1.challenge_code}
    /\ C17_LogsAreStoredRows

----------------------------------------------------------------------------
\* Properties of the community tables

----------------------------------------------------------------------------
\* Properties of the frame of the upserts

\* what the readers return for user v: the streak, the counts of the ranges
\* from the first log date on, the daily totals, the logs and the reflections
ReadsOf(v) ==
    [streak |-> compute_streak(v),
     counts |-> [e \in LogDates |-> completed_count_in_range(v, <<2023, 12, 31>>, e)],
     totals |-> [d \in LogDates |-> daily_completion_total(v, Formatted[d])],
     logs |-> [d \in LogDates |-> fetch_user_logs(v, Formatted[d])],
     reflection |-> [d \in LogDates |-> fetch_reflection(v, Formatted[d])]]

\* C21: each upsert touches only its own key. A set_challenge_completion
\* call leaves every challenge_logs row of another (log_date, author,
\* challenge_code) as it is, adds no row under another key and leaves
\* daily_reflections, challenges, posts and replies unchanged; a
\* save_reflection call does the same for the rows of another (log_date,
\* author) and leaves challenge_logs, challenges, posts and replies
\* unchanged. Neither changes what the readers return for another user.
C21_UpsertTouchesOwnKey ==
    [][(ops' = ops + 1 /\ last'.call.op \in {"set", "save"}) =>
        LET c == last'.call
            other(r) == IF c.op = "set"
                        THEN <<r.log_date, r.author, r.challenge_code>>
                                # <<c.log_date, c.author, c.challenge_code>>
                        ELSE <<r.log_date, r.author>> # <<c.log_date, c.author>>
        IN  /\ IF c.op = "set"
               THEN /\ {r \in challenge_logs : other(r)} = {r \in challenge_logs' : other(r)}
                    /\ daily_reflections' = daily_reflections
               ELSE /\ {r \in daily_reflections : other(r)}
                            = {r \in daily_reflections' : other(r)}
                    /\ challenge_logs' = challenge_logs
            /\ UNCHANGED <<challenges, posts, replies>>
            /\ \A v \in Users \ {c.author} : ReadsOf(v)' = ReadsOf(v)]_vars

\* two users have a row for the same date and challenge, the second written
\* by the last call
C21_Witness ==
    /\ last.call.op = "set"
    /\ \E r1, r2 \in challenge_logs :
            /\ r1.author # r2.author
            /\ r1.log_date = r2.log_date
            /\ r1.challenge_code = r2.challenge_code
            /\ r2.author = last.call.author

====
